---- MODULE Spec2Model ----
(***************************************************************************)
(* Renderer data marshalling of Easy3D (easy3d/viewer/renderer.cpp): the   *)
(* six update_data overloads that fill a drawable's GPU buffers from a     *)
(* point cloud, a surface mesh or a graph.                                 *)
(*                                                                         *)
(* One call of update_data is one action.  The calls it makes on the       *)
(* drawable are kept, in program order, in the variable 'calls', so that   *)
(* the drawable can be observed after each individual upload or setter.    *)
(***************************************************************************)
EXTENDS Integers, Sequences, FiniteSets, TLC

(* ------------------------------ bounds --------------------------------- *)
MaxPoints == 2      \* vertices of a point cloud
MaxV == 4           \* vertices of a surface mesh or a graph
MaxF == 2           \* faces of a surface mesh
MaxTess == 2        \* triangles the tessellator returns for one face
MaxE == 1           \* edges of a graph
MaxIndex == 1       \* largest v:primitive_index
NumColors == 2      \* random_color() draws from 1..NumColors (0 is black)

VARIABLES model, drawable, last, calls
vars == <<model, drawable, last, calls>>

(* ------------------------------ helpers -------------------------------- *)
NULL == [kind |-> "null"]

Max(a, b) == IF a >= b THEN a ELSE b

(* --------------------------- the drawables ----------------------------- *)
\* A drawable right after construction: nothing uploaded, no element
\* buffer, uniform colour.
NewDrawable(k) ==
    [kind |-> k,
     vertex_buffer |-> <<>>, normal_buffer |-> <<>>, color_buffer |-> <<>>,
     texcoord_buffer |-> <<>>,
     element_buffer |-> FALSE, indices |-> <<>>,
     per_vertex_color |-> FALSE, default_color |-> "initial",
     point_size |-> "initial", line_width |-> "initial",
     impostor_type |-> "initial"]

\* one call on the drawable
Call(f, a) == [fn |-> f, arg |-> a]

\* the effect of one call on the drawable
Apply(d, c) ==
    CASE c.fn = "update_vertex_buffer"   -> [d EXCEPT !.vertex_buffer = c.arg]
      [] c.fn = "update_normal_buffer"   -> [d EXCEPT !.normal_buffer = c.arg]
      [] c.fn = "update_color_buffer"    -> [d EXCEPT !.color_buffer = c.arg]
      [] c.fn = "update_texcoord_buffer" -> [d EXCEPT !.texcoord_buffer = c.arg]
      [] c.fn = "update_index_buffer"    ->
             [d EXCEPT !.element_buffer = TRUE, !.indices = c.arg]
      [] c.fn = "release_element_buffer" ->
             [d EXCEPT !.element_buffer = FALSE, !.indices = <<>>]
      [] c.fn = "set_per_vertex_color"   -> [d EXCEPT !.per_vertex_color = c.arg]
      [] c.fn = "set_default_color"      -> [d EXCEPT !.default_color = c.arg]
      [] c.fn = "set_point_size"         -> [d EXCEPT !.point_size = c.arg]
      [] c.fn = "set_line_width"         -> [d EXCEPT !.line_width = c.arg]
      [] c.fn = "set_impostor_type"      -> [d EXCEPT !.impostor_type = c.arg]

\* the drawable after the calls cs, made in order
RECURSIVE ApplyAll(_, _)
ApplyAll(d, cs) ==
    IF cs = <<>> THEN d ELSE ApplyAll(Apply(d, Head(cs)), Tail(cs))

(* ----------------------------- the models ------------------------------ *)
\* property lookup by name: get_vertex_property / get_face_property
has(m, name) == name \in m.props

\* vector() of the properties the marshallers upload
point_vector(m) == [i \in 1..m.n |-> <<i - 1>>]
normal_vector(m) == [i \in 1..m.n |-> <<m.normal, i - 1>>]
color_vector(m) == [i \in 1..m.n |-> <<1, i - 1>>]
texcoord_vector(m) == [i \in 1..m.n |-> <<i - 1>>]

\* what reading a property that does not exist yields when the process
\* survives the read
Garbage == << <<-1>> >>
UBOutcomes == {"crash", "garbage"}

\* the result of one update_data call
Result(cs, st, m, w) == [calls |-> cs, status |-> st, model |-> m, writes |-> w]

(* -------------------- update_data(PointCloud, PointsDrawable) ---------- *)
Colors == 1..NumColors
black == <<0, 0>>

RECURSIVE max_primitive_index(_, _, _)
max_primitive_index(m, i, num) ==
    IF i > m.n THEN num
    ELSE max_primitive_index(m, i + 1, Max(num, m.primitive_index[i]))

\* (variant: black goes to the vertices whose index is -1)
segmentation_colors_by_index(m, color_table) ==
    [i \in 1..m.n |->
        IF m.primitive_index[i] = -1 THEN black
        ELSE <<0, color_table[m.primitive_index[i] + 1]>>]
\* one colour per vertex: black for an unknown type, else the table entry
segmentation_colors(m, color_table) ==
    [i \in 1..m.n |->
        IF m.primitive_type[i] = -1 THEN black
        ELSE <<0, color_table[m.primitive_index[i] + 1]>>]

update_data_PointCloud_Points(m, dnull, rng, ub) ==
    IF m.kind = "null" \/ dnull THEN Result(<<>>, "abort", m, {})
    ELSE IF has(m, "v:primitive_type") /\ has(m, "v:primitive_index") THEN
        LET num == max_primitive_index(m, 1, 0) + 1
            color_table == SubSeq(rng, 1, num)
            colors == segmentation_colors(m, color_table)
            c1 == << Call("update_color_buffer", colors),
                     Call("set_per_vertex_color", TRUE) >>
            points == IF has(m, "v:point") THEN point_vector(m) ELSE Garbage
            c2 == << Call("update_vertex_buffer", points) >>
            c3 == IF has(m, "v:normal")
                  THEN << Call("update_normal_buffer", normal_vector(m)) >>
                  ELSE <<>>
        IN  IF ~has(m, "v:point") /\ ub = "crash"
            THEN Result(c1, "abort", m, {})
            ELSE Result(c1 \o c2 \o c3,
                        IF has(m, "v:point") THEN "done" ELSE "ub", m, {})
    ELSE
        LET points == IF has(m, "v:point") THEN point_vector(m) ELSE Garbage
            c1 == << Call("update_vertex_buffer", points) >>
            c2 == IF has(m, "v:normal")
                  THEN << Call("update_normal_buffer", normal_vector(m)) >>
                  ELSE <<>>
            c3 == IF has(m, "v:color")
                  THEN << Call("update_color_buffer", color_vector(m)),
                          Call("set_per_vertex_color", TRUE) >>
                  ELSE << Call("set_default_color", "point_cloud_points_color"),
                          Call("set_per_vertex_color", FALSE) >>
        IN  IF ~has(m, "v:point") /\ ub = "crash"
            THEN Result(<<>>, "abort", m, {})
            ELSE Result(c1 \o c2 \o c3,
                        IF has(m, "v:point") THEN "done" ELSE "ub", m, {})

(* ------------------------ surface mesh access -------------------------- *)
\* the halfedges of a face are 1..Len(vs), halfedge(face) is 1, and vs[h]
\* is the vertex halfedge h points to
next_halfedge(vs, h) == (h % Len(vs)) + 1
\* (variant: the position of the vertex in a buffer counted from one)
to_vertex_from_one(vs, h) == vs[h] + 1
to_vertex(vs, h) == vs[h]
from_vertex(vs, h) == vs[((h - 2) % Len(vs)) + 1]

\* face_property<>("f:triangle_range"): the property, added with the
\* default pair for every face when the mesh does not have it
face_property_triangle_range(m) ==
    IF has(m, "f:triangle_range") THEN m
    ELSE [m EXCEPT !.props = @ \cup {"f:triangle_range"},
                   !.triangle_range = [i \in 1..Len(m.faces) |-> <<0, 0>>]]

\* SurfaceMesh::update_vertex_normals(): v:normal is (re)computed
update_vertex_normals(m) ==
    [m EXCEPT !.props = @ \cup {"v:normal"}, !.normal = 1]

\* (variant: the range ends one past its last triangle)
make_range_past_end(count_triangles, num) ==
    <<count_triangles, count_triangles + num>>
\* (variant: triangles are numbered from one)
make_range_from_one(count_triangles, num) ==
    <<count_triangles + 1, count_triangles + num>>
\* std::make_pair(count_triangles, count_triangles + num - 1); with a
\* size_t num the sum wraps to SIZE_MAX for 0 + 0 - 1 and narrows to int -1
make_range(count_triangles, num) ==
    <<count_triangles,
      IF count_triangles + num = 0 THEN -1 ELSE count_triangles + num - 1>>

(* ------------------ update_data(SurfaceMesh, TrianglesDrawable) -------- *)
\* the three corners of each of the num triangles of face f, as the
\* tessellator hands them out
tessellated(f, num) ==
    [p \in 1..(3 * num) |-> <<f, (p - 1) \div 3, ((p - 1) % 3) + 1>>]

RECURSIVE tessellate_faces(_, _, _)
tessellate_faces(m, f, acc) ==
    IF f > Len(m.faces) THEN acc
    ELSE LET num == m.faces[f].num_triangles
         IN  tessellate_faces(m, f + 1,
                [d_points |-> acc.d_points \o tessellated(f, num),
                 d_normals |-> acc.d_normals \o tessellated(f, num),
                 d_colors |-> acc.d_colors \o [p \in 1..(3 * num) |-> <<2, f>>],
                 triangle_range |-> Append(acc.triangle_range,
                                          make_range(acc.count_triangles, num)),
                 count_triangles |-> acc.count_triangles + num])

\* the while loop over one face: triangles (va, from(cur), to(cur))
RECURSIVE fan(_, _, _, _)
fan(vs, cur, indices, num) ==
    IF cur = 1 THEN [indices |-> indices, num |-> num]
    ELSE fan(vs, next_halfedge(vs, cur),
             indices \o <<to_vertex(vs, 1), from_vertex(vs, cur),
                          to_vertex(vs, cur)>>,
             num + 1)

RECURSIVE fan_faces(_, _, _)
fan_faces(m, f, acc) ==
    IF f > Len(m.faces) THEN acc
    ELSE LET vs == m.faces[f].verts
             r == fan(vs, next_halfedge(vs, next_halfedge(vs, 1)), <<>>, 0)
         IN  fan_faces(m, f + 1,
                [indices |-> acc.indices \o r.indices,
                 triangle_range |-> Append(acc.triangle_range,
                                          make_range(acc.count_triangles, r.num)),
                 count_triangles |-> acc.count_triangles + r.num])

\* (variant: a static counter that goes on from the previous marshal)
count_triangles_static(m) ==
    IF has(m, "f:triangle_range") /\ m.triangle_range # <<>>
    THEN m.triangle_range[Len(m.triangle_range)][2] + 1
    ELSE 0
\* int count_triangles = 0: every call counts from zero
count_triangles_0(m) == 0

\* (variant: the element buffer is not released)
flat_uploads_indexed(t) ==
    << Call("update_vertex_buffer", t.d_points),
       Call("update_normal_buffer", t.d_normals),
       Call("update_color_buffer", t.d_colors),
       Call("set_per_vertex_color", TRUE) >>
\* the uploads of the per-face colour branch
flat_uploads(t) ==
    << Call("update_vertex_buffer", t.d_points),
       Call("update_normal_buffer", t.d_normals),
       Call("update_color_buffer", t.d_colors),
       Call("set_per_vertex_color", TRUE),
       Call("release_element_buffer", TRUE) >>

per_vertex_colors(m) ==
    IF has(m, "v:color")
    THEN << Call("update_color_buffer", color_vector(m)),
            Call("set_per_vertex_color", TRUE) >>
    ELSE <<>>

update_data_SurfaceMesh_Triangles(m, dnull, ndebug, ub) ==
    IF m.kind = "null" \/ (dnull /\ ~ndebug) THEN Result(<<>>, "abort", m, {})
    ELSE
    LET m1 == face_property_triangle_range(m)
        w1 == m1.props \ m.props
        m2 == update_vertex_normals(m1)
        w2 == w1 \cup {"v:normal"}
        w3 == w2 \cup (IF m.faces = <<>> THEN {} ELSE {"f:triangle_range"})
        st == IF has(m, "v:point") THEN "done" ELSE "ub"
    IN  IF ~has(m, "v:point") /\ ub = "crash" THEN Result(<<>>, "abort", m1, w1)
        ELSE IF has(m, "f:color") THEN
            LET t == tessellate_faces(m2, 1,
                        [d_points |-> <<>>, d_normals |-> <<>>, d_colors |-> <<>>,
                         triangle_range |-> <<>>,
                         count_triangles |-> count_triangles_0(m2)])
                m3 == [m2 EXCEPT !.triangle_range = t.triangle_range]
            IN  IF dnull THEN Result(<<>>, "abort", m3, w3)
                ELSE Result(flat_uploads(t), st, m3, w3)
        ELSE
            LET points == IF has(m, "v:point") THEN point_vector(m) ELSE Garbage
                t == fan_faces(m2, 1, [indices |-> <<>>, triangle_range |-> <<>>,
                                        count_triangles |-> count_triangles_0(m2)])
                m4 == IF ~has(m2, "v:normal") THEN update_vertex_normals(m2) ELSE m2
                m3 == [m4 EXCEPT !.triangle_range = t.triangle_range]
                tex == IF has(m, "v:texcoord")
                       THEN << Call("update_texcoord_buffer", texcoord_vector(m)) >>
                       ELSE <<>>
            IN  IF dnull THEN Result(<<>>, "abort", m2, w2)
                ELSE Result(<< Call("update_vertex_buffer", points) >>
                            \o per_vertex_colors(m) \o tex
                            \o << Call("update_normal_buffer", normal_vector(m4)),
                                  Call("update_index_buffer", t.indices) >>,
                            st, m3, w3)

(* ------- the marshallers that upload v:point and fixed settings -------- *)
\* a marshaller without assertions: the first statement dereferences the
\* model, the first call dereferences the drawable and reads v:point
unchecked(m, dnull, ub, cs) ==
    IF m.kind = "null" \/ dnull THEN Result(<<>>, "abort", m, {})
    ELSE IF ~has(m, "v:point") /\ ub = "crash" THEN Result(<<>>, "abort", m, {})
    ELSE Result(cs, IF has(m, "v:point") THEN "done" ELSE "ub", m, {})

points_of(m) ==
    IF m.kind = "null" THEN <<>>
    ELSE IF has(m, "v:point") THEN point_vector(m) ELSE Garbage

update_data_SurfaceMesh_Points(m, dnull, ub) ==
    unchecked(m, dnull, ub,
        << Call("update_vertex_buffer", points_of(m)),
           Call("set_default_color", "surface_mesh_vertices_color"),
           Call("set_per_vertex_color", FALSE),
           Call("set_point_size", "surface_mesh_vertices_point_size"),
           Call("set_impostor_type", "SPHERE") >>)

\* model->edges() of a surface mesh: every undirected edge of a face once,
\* with its two end points vertex(e, 0) and vertex(e, 1)
face_edges(vs) ==
    { IF from_vertex(vs, h) < to_vertex(vs, h)
      THEN <<from_vertex(vs, h), to_vertex(vs, h)>>
      ELSE <<to_vertex(vs, h), from_vertex(vs, h)>> : h \in 1..Len(vs) }

RECURSIVE edge_sequence(_)
edge_sequence(S) ==
    IF S = {} THEN <<>>
    ELSE LET e == CHOOSE x \in S :
                     \A y \in S : x[1] < y[1] \/ (x[1] = y[1] /\ x[2] <= y[2])
         IN  <<e>> \o edge_sequence(S \ {e})

edges(m) ==
    IF m.kind = "Graph" THEN m.edges
    ELSE edge_sequence(UNION { face_edges(m.faces[f].verts) :
                                  f \in 1..Len(m.faces) })

RECURSIVE edge_indices(_)
edge_indices(es) ==
    IF es = <<>> THEN <<>>
    ELSE <<Head(es)[1], Head(es)[2]>> \o edge_indices(Tail(es))

update_data_SurfaceMesh_Lines(m, dnull, ub) ==
    unchecked(m, dnull, ub,
        << Call("update_vertex_buffer", points_of(m)),
           Call("update_index_buffer",
                IF m.kind = "null" THEN <<>> ELSE edge_indices(edges(m))),
           Call("set_default_color", "surface_mesh_edges_color"),
           Call("set_per_vertex_color", FALSE),
           Call("set_line_width", "surface_mesh_edges_line_width") >>)

update_data_Graph_Points(m, dnull, ub) ==
    unchecked(m, dnull, ub,
        << Call("update_vertex_buffer", points_of(m)),
           Call("set_per_vertex_color", FALSE),
           Call("set_default_color", "red"),
           Call("set_point_size", "15"),
           Call("set_impostor_type", "SPHERE") >>)

update_data_Graph_Lines(m, dnull, ub) ==
    unchecked(m, dnull, ub,
        << Call("update_vertex_buffer", points_of(m)),
           Call("update_index_buffer",
                IF m.kind = "null" THEN <<>> ELSE edge_indices(edges(m))),
           Call("set_per_vertex_color", FALSE),
           Call("set_default_color", "1.0 0.67 0.5"),
           Call("set_line_width", "3"),
           Call("set_impostor_type", "CYLINDER") >>)

(* --------------------------- initial states ---------------------------- *)
\* sequences over S of length lo..hi
SeqsOf(S, lo, hi) == UNION { [1..k -> S] : k \in lo..hi }

\* a point cloud: v:primitive_type is -1 (unknown) or 0 (a plane), and a
\* vertex of a known type has the index of its segment
PointClouds ==
    { c \in [kind : {"PointCloud"}, n : 0..MaxPoints,
             props : SUBSET {"v:point", "v:normal", "v:color",
                             "v:primitive_type", "v:primitive_index"},
             normal : {0},
             primitive_type : SeqsOf({-1, 0}, 0, MaxPoints),
             primitive_index : SeqsOf(-1..MaxIndex, 0, MaxPoints)] :
        /\ Len(c.primitive_type) = IF has(c, "v:primitive_type") THEN c.n ELSE 0
        /\ Len(c.primitive_index) = IF has(c, "v:primitive_index") THEN c.n ELSE 0
        /\ has(c, "v:primitive_type") /\ has(c, "v:primitive_index") =>
              \A i \in 1..c.n :
                  c.primitive_type[i] # -1 => c.primitive_index[i] >= 0 }

\* a face: its vertices in halfedge order (the first two or more vertices of
\* the mesh) and the number of triangles the tessellator makes of it
FaceVertices(n) == { [i \in 1..k |-> i - 1] : k \in 2..n }

Faces(n) == [verts : FaceVertices(n), num_triangles : 0..MaxTess]

\* a surface mesh before its first marshal: v:normal, when present, holds
\* the normals the mesh was loaded with (version 0)
SurfaceMeshes ==
    UNION { [kind : {"SurfaceMesh"}, n : {n},
             faces : SeqsOf(Faces(n), 0, MaxF),
             props : SUBSET {"v:point", "v:normal", "v:color", "v:texcoord",
                             "f:color"},
             normal : {0},
             triangle_range : {<<>>}] : n \in 1..MaxV }

\* the meshes handed to the points and lines marshallers, which read
\* nothing but v:point and the edges
PlainSurfaceMeshes ==
    { m \in SurfaceMeshes :
        /\ m.props \subseteq {"v:point"}
        /\ \A f \in 1..Len(m.faces) :
              m.faces[f].num_triangles = Max(0, Len(m.faces[f].verts) - 2) }

Graphs ==
    UNION { [kind : {"Graph"}, n : {n},
             edges : SeqsOf({ e \in (0..(n - 1)) \X (0..(n - 1)) : e[1] # e[2] },
                            0, MaxE),
             props : SUBSET {"v:point"}] : n \in 1..MaxV }

NoCall == [ov |-> "none", status |-> "none", rng |-> <<>>,
           violation |-> FALSE, writes |-> {}, again |-> FALSE]

Init ==
    /\ \/ model \in PointClouds /\ drawable = NewDrawable("points")
       \/ model \in SurfaceMeshes /\ drawable = NewDrawable("triangles")
       \/ model \in PlainSurfaceMeshes
             /\ drawable \in {NewDrawable("points"), NewDrawable("lines")}
       \/ model \in Graphs
             /\ drawable \in {NewDrawable("points"), NewDrawable("lines")}
    /\ last = NoCall
    /\ calls = <<>>

(* ------------------------------ actions -------------------------------- *)
\* the process has not been aborted and has not run into undefined behaviour
Alive == last.status \in {"none", "done"}

\* the arguments a caller may pass: the model or a null pointer, the
\* drawable or a null pointer (dnull)
Args == { <<model, FALSE>>, <<NULL, FALSE>>, <<model, TRUE>> }

\* what a read of v:point can do: nothing but yield the property when the
\* model has it
PointReads(m) ==
    IF m.kind # "null" /\ ~has(m, "v:point") THEN UBOutcomes ELSE {"crash"}

\* one call update_data(m, d) with result r
Invoke(ov, m, dnull, rng, r) ==
    /\ model' = IF m.kind = "null" THEN model ELSE r.model
    /\ drawable' = ApplyAll(drawable, r.calls)
    /\ calls' = r.calls
    /\ last' = [ov |-> ov, status |-> r.status, rng |-> rng,
                violation |-> (m.kind = "null" \/ dnull \/ ~has(model, "v:point")),
                writes |-> r.writes,
                again |-> (last.status = "done" /\ r.status = "done"
                           /\ last.ov = ov /\ last.rng = rng)]

\* the colours random_color() may return to one call of the point cloud
\* marshaller, one for each entry of color_table
RandomColors(m, dnull) ==
    IF m.kind # "null" /\ ~dnull
          /\ has(m, "v:primitive_type") /\ has(m, "v:primitive_index")
    THEN [1..(max_primitive_index(m, 1, 0) + 1) -> Colors]
    ELSE {<<>>}

UpdatePointCloudPoints ==
    /\ Alive /\ model.kind = "PointCloud" /\ drawable.kind = "points"
    /\ \E a \in Args :
       \E ub \in PointReads(a[1]), rng \in RandomColors(a[1], a[2]) :
          Invoke("PointCloud_Points", a[1], a[2], rng,
                 update_data_PointCloud_Points(a[1], a[2], rng, ub))

UpdateSurfaceMeshPoints ==
    /\ Alive /\ model.kind = "SurfaceMesh" /\ drawable.kind = "points"
    /\ \E a \in Args :
       \E ub \in PointReads(a[1]) :
          Invoke("SurfaceMesh_Points", a[1], a[2], <<>>,
                 update_data_SurfaceMesh_Points(a[1], a[2], ub))

UpdateSurfaceMeshTriangles ==
    /\ Alive /\ model.kind = "SurfaceMesh" /\ drawable.kind = "triangles"
    /\ \E a \in Args :
       \E ndebug \in (IF a[2] THEN BOOLEAN ELSE {FALSE}), ub \in PointReads(a[1]) :
          Invoke("SurfaceMesh_Triangles", a[1], a[2], <<>>,
                 update_data_SurfaceMesh_Triangles(a[1], a[2], ndebug, ub))

UpdateSurfaceMeshLines ==
    /\ Alive /\ model.kind = "SurfaceMesh" /\ drawable.kind = "lines"
    /\ \E a \in Args :
       \E ub \in PointReads(a[1]) :
          Invoke("SurfaceMesh_Lines", a[1], a[2], <<>>,
                 update_data_SurfaceMesh_Lines(a[1], a[2], ub))

UpdateGraphPoints ==
    /\ Alive /\ model.kind = "Graph" /\ drawable.kind = "points"
    /\ \E a \in Args :
       \E ub \in PointReads(a[1]) :
          Invoke("Graph_Points", a[1], a[2], <<>>,
                 update_data_Graph_Points(a[1], a[2], ub))

UpdateGraphLines ==
    /\ Alive /\ model.kind = "Graph" /\ drawable.kind = "lines"
    /\ \E a \in Args :
       \E ub \in PointReads(a[1]) :
          Invoke("Graph_Lines", a[1], a[2], <<>>,
                 update_data_Graph_Lines(a[1], a[2], ub))

\* between two marshals the client gives the mesh per-face or per-vertex
\* colours, or takes them away
ColorProperties == {"f:color", "v:color"}

AddProperty ==
    /\ Alive /\ model.kind = "SurfaceMesh" /\ drawable.kind = "triangles"
    /\ \E name \in ColorProperties \ model.props :
          model' = [model EXCEPT !.props = @ \cup {name}]
    /\ last' = NoCall /\ calls' = <<>>
    /\ UNCHANGED drawable

RemoveProperty ==
    /\ Alive /\ model.kind = "SurfaceMesh" /\ drawable.kind = "triangles"
    /\ \E name \in ColorProperties \cap model.props :
          model' = [model EXCEPT !.props = @ \ {name}]
    /\ last' = NoCall /\ calls' = <<>>
    /\ UNCHANGED drawable

Next ==
    \/ UpdatePointCloudPoints
    \/ UpdateSurfaceMeshPoints
    \/ UpdateSurfaceMeshTriangles
    \/ UpdateSurfaceMeshLines
    \/ UpdateGraphPoints
    \/ UpdateGraphLines
    \/ AddProperty
    \/ RemoveProperty

Spec == Init /\ [][Next]_vars

(* =========================== properties ================================ *)
TrianglesDone ==
    last.ov = "SurfaceMesh_Triangles" /\ last.status = "done"

\* the number of triangles a marshal makes of face f: what the tessellator
\* returns with f:color, a fan of n - 2 triangles without
TrianglesOf(f) ==
    IF has(model, "f:color") THEN model.faces[f].num_triangles
    ELSE Max(0, Len(model.faces[f].verts) - 2)

RECURSIVE TrianglesBefore(_)
TrianglesBefore(f) ==
    IF f <= 1 THEN 0 ELSE TrianglesBefore(f - 1) + TrianglesOf(f - 1)

\* the number of triangles in the buffers the drawable draws from
TotalTriangles ==
    IF drawable.element_buffer THEN Len(drawable.indices) \div 3
    ELSE Len(drawable.vertex_buffer) \div 3

RangeOf(f) == model.triangle_range[f][1]..model.triangle_range[f][2]

\* C1: after a triangles marshal the per-face triangle ranges partition
\* [0, count_triangles): each face starts where the faces before it end and
\* spans its own triangles, a face without triangles getting (first, first - 1).
C1_RangesPartition ==
    TrianglesDone =>
        /\ Len(model.triangle_range) = Len(model.faces)
        /\ \A f \in 1..Len(model.faces) :
              /\ model.triangle_range[f][1] = TrianglesBefore(f)
              /\ model.triangle_range[f][2] = TrianglesBefore(f) + TrianglesOf(f) - 1
        /\ \A k \in 0..(TotalTriangles - 1) :
              Cardinality({ f \in 1..Len(model.faces) : k \in RangeOf(f) }) = 1
        /\ \A f \in 1..Len(model.faces) : RangeOf(f) \subseteq 0..(TotalTriangles - 1)

C1_Witness ==
    /\ TrianglesDone
    /\ has(model, "f:color")
    /\ Len(model.faces) = 2
    /\ model.triangle_range[1] = <<0, -1>>
    /\ model.triangle_range[2] = <<0, 1>>

\* C2 as stated: after a triangles marshal every face has a range (a, b)
\* with 0 <= a <= b < total_triangles.
C2_NonEmptyRanges ==
    TrianglesDone =>
        \A f \in 1..Len(model.faces) :
            /\ 0 <= model.triangle_range[f][1]
            /\ model.triangle_range[f][1] <= model.triangle_range[f][2]
            /\ model.triangle_range[f][2] < TotalTriangles

\* C2 amended: a face with at least one triangle has a range (a, b) with
\* 0 <= a <= b < total_triangles; a face without triangles has the empty
\* range (a, a - 1) with 0 <= a <= total_triangles.
C2_RangesWithinTotal ==
    TrianglesDone =>
        \A f \in 1..Len(model.faces) :
            LET a == model.triangle_range[f][1]
                b == model.triangle_range[f][2]
            IN  IF TrianglesOf(f) >= 1
                THEN 0 <= a /\ a <= b /\ b < TotalTriangles
                ELSE b = a - 1 /\ 0 <= a /\ a <= TotalTriangles

C2_Witness ==
    /\ TrianglesDone
    /\ ~has(model, "f:color")
    /\ \E f, g \in 1..Len(model.faces) :
          /\ TrianglesOf(f) = 0 /\ model.triangle_range[f] = <<0, -1>>
          /\ TrianglesOf(g) = 2 /\ model.triangle_range[g] = <<0, 1>>

\* C3: after the per-face colour branch the position, normal and colour
\* buffers have 3 * count_triangles entries each, per_vertex_color is true
\* and no element buffer is bound.
C3_FlatBuffers ==
    TrianglesDone /\ has(model, "f:color") =>
        LET count_triangles == TrianglesBefore(Len(model.faces) + 1)
        IN  /\ Len(drawable.vertex_buffer) = 3 * count_triangles
            /\ Len(drawable.normal_buffer) = 3 * count_triangles
            /\ Len(drawable.color_buffer) = 3 * count_triangles
            /\ drawable.per_vertex_color
            /\ ~drawable.element_buffer

\* the drawable still holds the texture coordinates of an earlier indexed
\* marshal, and the flat marshal has replaced everything else
C3_Witness ==
    /\ TrianglesDone /\ has(model, "f:color")
    /\ drawable.texcoord_buffer # <<>>
    /\ Len(drawable.vertex_buffer) = 9
    /\ ~drawable.element_buffer

\* C4: after the per-vertex branch the index buffer has 3 * count_triangles
\* entries, every index is below the number of uploaded vertices, and a face
\* of n halfedges has max(0, n - 2) triangles that all start at the vertex
\* its first halfedge points to.
C4_FanIndices ==
    TrianglesDone /\ ~has(model, "f:color") =>
        LET count_triangles == TrianglesBefore(Len(model.faces) + 1)
        IN  /\ drawable.element_buffer
            /\ Len(drawable.indices) = 3 * count_triangles
            /\ \A i \in 1..Len(drawable.indices) :
                  /\ 0 <= drawable.indices[i]
                  /\ drawable.indices[i] < Len(drawable.vertex_buffer)
            /\ \A f \in 1..Len(model.faces) :
                  /\ Cardinality(RangeOf(f)) = Max(0, Len(model.faces[f].verts) - 2)
                  /\ \A k \in RangeOf(f) :
                        drawable.indices[3 * k + 1] = model.faces[f].verts[1]

C4_Witness ==
    /\ TrianglesDone /\ ~has(model, "f:color")
    /\ drawable.indices = <<0, 1, 2, 0, 2, 3, 0, 1, 2>>
    /\ Len(drawable.vertex_buffer) = 4

SegmentationDone ==
    /\ last.ov = "PointCloud_Points" /\ last.status = "done"
    /\ has(model, "v:primitive_type") /\ has(model, "v:primitive_index")

KnownType(i) == model.primitive_type[i] # -1

\* C5: with segmentation the marshal emits one colour per vertex in vertex
\* order: black for every vertex of unknown type whatever its index, the
\* colour table entry of its index for every other vertex; so equal indices
\* of known type share a colour, at most 1 + max(primitive_index) colours
\* other than black appear, per_vertex_color is true and neither v:color
\* nor the default colour is applied.
C5_SegmentationColors ==
    SegmentationDone =>
        /\ Len(drawable.color_buffer) = model.n
        /\ \A i \in 1..model.n :
              /\ ~KnownType(i) => drawable.color_buffer[i] = <<0, 0>>
              /\ KnownType(i) =>
                    drawable.color_buffer[i] = <<0, last.rng[model.primitive_index[i] + 1]>>
        /\ \A i, j \in 1..model.n :
              KnownType(i) /\ KnownType(j)
                 /\ model.primitive_index[i] = model.primitive_index[j]
              => drawable.color_buffer[i] = drawable.color_buffer[j]
        /\ model.n > 0 =>
              Cardinality({ drawable.color_buffer[i] : i \in 1..model.n } \ {<<0, 0>>})
                 <= 1 + (CHOOSE x \in { model.primitive_index[i] : i \in 1..model.n } :
                            \A i \in 1..model.n : model.primitive_index[i] <= x)
        /\ drawable.per_vertex_color
        /\ drawable.default_color = "initial"
        /\ \A k \in 1..Len(calls) :
              /\ calls[k].fn # "set_default_color"
              /\ calls[k].fn = "update_color_buffer" =>
                    \A i \in 1..model.n : calls[k].arg[i][1] = 0

\* a vertex of unknown type whose index has a colour other than black in the
\* table, next to a vertex of known type, in a cloud that has v:color
C5_Witness ==
    /\ SegmentationDone
    /\ has(model, "v:color")
    /\ model.n = 2
    /\ ~KnownType(1) /\ KnownType(2)
    /\ model.primitive_index[1] = 1 /\ model.primitive_index[2] = 1
    /\ drawable.color_buffer[1] = <<0, 0>>
    /\ drawable.color_buffer[2] # <<0, 0>>

\* C6: a marshal that repeats the one before it (same overload, same random
\* colours, model untouched in between) leaves the drawable and the model
\* as the first one left them.
C6_Idempotent ==
    [][last'.again => drawable' = drawable /\ model' = model]_vars

\* the second of two triangle marshals of a mesh that came without normals
C6_Witness ==
    /\ last.again
    /\ last.ov = "SurfaceMesh_Triangles"
    /\ Len(model.faces) = 2
    /\ drawable.vertex_buffer # <<>>

\* C7 as stated: a null model, a null drawable or a missing v:point ends the
\* call in the abort state before any call on the drawable and before any
\* write to a model property.
C7_AbortBeforeEffects ==
    last.violation =>
        last.status = "abort" /\ calls = <<>> /\ last.writes = {}

\* C8 as stated: a marshal writes no model property but f:triangle_range
\* and v:normal, only the triangles marshal writes at all, and normals the
\* mesh already has keep their values.
C8_SourceUnchanged ==
    [][last'.status = "done" =>
          /\ last'.writes \subseteq {"f:triangle_range", "v:normal"}
          /\ last'.ov # "SurfaceMesh_Triangles" => model' = model
          /\ has(model, "v:normal") => normal_vector(model') = normal_vector(model)
      ]_vars

\* the drawable's own invariants
DrawableInvariant(d) ==
    /\ d.element_buffer =>
          \A i \in 1..Len(d.indices) : d.indices[i] < Len(d.vertex_buffer)
    /\ d.normal_buffer # <<>> => Len(d.normal_buffer) = Len(d.vertex_buffer)
    /\ d.per_vertex_color => Len(d.color_buffer) = Len(d.vertex_buffer)

\* C9 as stated: starting from a drawable left by a completed marshal, the
\* drawable's invariants hold after each call a marshal makes on it.
C9_InvariantAtEachCall ==
    [][(drawable # NewDrawable(drawable.kind) /\ last'.status = "done") =>
          \A i \in 1..Len(calls') :
              DrawableInvariant(ApplyAll(drawable, SubSeq(calls', 1, i)))
      ]_vars

\* C10 as stated: after a completed triangles marshal, per_vertex_color is
\* true only with a colour buffer that this marshal uploaded and that has
\* one colour per vertex of the vertex buffer.
C10_ColorsMatchVertices ==
    (TrianglesDone /\ drawable.per_vertex_color) =>
        /\ \E k \in 1..Len(calls) : calls[k].fn = "update_color_buffer"
        /\ Len(drawable.color_buffer) = Len(drawable.vertex_buffer)

====
